---- MODULE Spec2Model ----
(***************************************************************************)
(* Model of test-scripts/stress-test.py: the StressTester load driver.     *)
(*                                                                         *)
(*   Spec      make_request and a batch of make_request coroutines run by  *)
(*             asyncio.gather(..., return_exceptions=True)                 *)
(*   SpecTwin  the same batch run side by side with a twin run in which    *)
(*             the request that ends in a transport exception is answered  *)
(*   SpecRun   run_comprehensive_stress_test, the scripted scenario        *)
(*   SpecStats the 95th percentile printed by the report                   *)
(*                                                                         *)
(* asyncio runs coroutines on one thread: the code between two awaits is   *)
(* one atomic step.  make_request awaits twice (the response headers, the  *)
(* response body); everything after the body is read runs without await.   *)
(***************************************************************************)
EXTENDS Integers, Sequences, FiniteSets, TLC

VARIABLES
    session,      \* self.session: "none", "open" or "closed"
    results,      \* self.results: response_times, errors, success_count, error_count
    tasks,        \* the coroutines handed to the current asyncio.gather
    gathered,     \* what the last asyncio.gather returned
    pre,          \* self.results as it was when the current batch was dispatched
    phase,        \* position of the caller of the batch
    twin,         \* SpecTwin: self.results of the twin run
    twinTasks,    \* SpecTwin: the twin run's coroutines
    victim,       \* SpecTwin: the request whose exception the twin run replaces
    run,          \* SpecRun: locals and position of run_comprehensive_stress_test
    latencies,    \* SpecStats: the list handed to the percentile expression
    stats         \* SpecStats: what the percentile expression produced

vars == <<session, results, tasks, gathered, pre, phase, twin, twinTasks,
          victim, run, latencies, stats>>

----------------------------------------------------------------------------
(* Bounds of the model *)

\* Largest batch handed to one asyncio.gather in Spec and SpecTwin.
BatchSize == 2

\* Sequential make_request calls the caller may await before the batch.
MaxPrior == 1

\* Requests of the authenticated batch in SpecRun (the script passes 50).
AuthCount == 1

\* Longest latency list the percentile is computed of in SpecStats.
MaxLatencies == 21

----------------------------------------------------------------------------
(* Values *)

\* body[:200] keeps the first 200 characters.
BodyPrefix == 200

\* A response body: what json.loads makes of it, and its length.
Body(kind, len) == [kind |-> kind, len |-> len]

Min(a, b) == IF a < b THEN a ELSE b

\* body[:200]
Truncate(body) == [body EXCEPT !.len = Min(body.len, BodyPrefix)]

\* HTTP statuses the server may answer with.
Statuses == {200, 304, 400, 500}

\* What reading a response yields in Spec: the body (a short one, and one
\* longer than the prefix kept in an error entry) and the elapsed
\* milliseconds measured with time.time().
Replies ==
    {[body |-> Body("json", 20), rt |-> 4], [body |-> Body("text", 250), rt |-> 7]}

\* Exceptions the session raises while awaiting headers or body.
TransportErrors == {"TimeoutError", "ClientConnectorError"}

\* str(e)
Str(e) == Body("text", IF e = "TimeoutError" THEN 0 ELSE 30)


\* Request descriptors; PUT is a method make_request does not support.
Descriptors ==
    <<[method |-> "GET", endpoint |-> "/auth/profile"],
      [method |-> "POST", endpoint |-> "/customers"],
      [method |-> "PUT", endpoint |-> "/customers"]>>

----------------------------------------------------------------------------
(* StressTester.__init__ *)

NewResults ==
    [response_times |-> <<>>, errors |-> <<>>, success_count |-> 0, error_count |-> 0]

\* success_count + error_count, the report's "Total Requests".
Total(r) == r.success_count + r.error_count

\* isinstance(r, dict): a result record, not an exception object.
IsRecord(x) == DOMAIN x = {"status", "body", "response_time"}

----------------------------------------------------------------------------
(* StressTester.make_request *)

\* if method == "GET" ... elif method == "POST" ... else raise ValueError
Supported(method) == method \in {"GET", "POST"}

\* Mutation: the comparison admits 400 itself.
IsSuccessUpTo400(status) == status <= 400

\* Mutation: only server errors count as failures.
IsSuccessBelow500(status) == status < 500

\* if status < 400
IsSuccess(status) == status < 400

\* Mutation: the handler names the client's own exception class only.
CaughtClientErrorOnly(e) == e = "ClientConnectorError"

\* except Exception as e: every exception the try block raises is caught.
Caught(e) == TRUE

\* Mutation: the else is lost, a failure is counted as a success as well.
RecordResponseNoElse(r, endpoint, status, body, rt) ==
    LET timed == [r EXCEPT !.response_times = Append(@, rt),
                           !.success_count = @ + 1]
    IN  IF status < 400
        THEN timed
        ELSE [timed EXCEPT !.error_count = @ + 1,
                           !.errors = Append(@, [endpoint |-> endpoint,
                                                 status |-> status,
                                                 body |-> Truncate(body)])]

\* Mutation: the latency is not recorded.
RecordResponseUntimed(r, endpoint, status, body, rt) ==
    IF status < 400
    THEN [r EXCEPT !.success_count = @ + 1]
    ELSE [r EXCEPT !.error_count = @ + 1,
                   !.errors = Append(@, [endpoint |-> endpoint,
                                         status |-> status,
                                         body |-> Truncate(body)])]

\* Lines 54-65: the response was read; record latency and classify.
RecordResponse(r, endpoint, status, body, rt) ==
    LET timed == [r EXCEPT !.response_times = Append(@, rt)]
    IN  IF IsSuccess(status)
        THEN [timed EXCEPT !.success_count = @ + 1]
        ELSE [timed EXCEPT !.error_count = @ + 1,
                           !.errors = Append(@, [endpoint |-> endpoint,
                                                 status |-> status,
                                                 body |-> Truncate(body)])]

\* Lines 67-71
ResponseResult(status, body, rt) ==
    [status |-> status, body |-> body, response_time |-> rt]

\* Mutation: the handler records a latency of 0 for the failed request.
RecordExceptionTimed(r, endpoint, e) ==
    [r EXCEPT !.error_count = @ + 1,
              !.response_times = Append(@, 0),
              !.errors = Append(@, [endpoint |-> endpoint, error |-> Str(e)])]

\* Mutation: the handler assigns the error list instead of appending to it.
RecordExceptionAssign(r, endpoint, e) ==
    [r EXCEPT !.error_count = @ + 1,
              !.errors = <<[endpoint |-> endpoint, error |-> Str(e)]>>]

\* Lines 73-78: the except handler's bookkeeping.
RecordException(r, endpoint, e) ==
    [r EXCEPT !.error_count = @ + 1,
              !.errors = Append(@, [endpoint |-> endpoint, error |-> Str(e)])]

\* Lines 79-83
ExceptionResult(e) ==
    [status |-> 0, body |-> Str(e), response_time |-> 0]

\* A coroutine that has not run yet.
NewTask(d) ==
    [method |-> d.method, endpoint |-> d.endpoint, pc |-> "new", status |-> 0,
     outcome |-> <<>>]

\* The task after an exception e was raised inside the try block: the handler
\* returns the synthetic result; an exception it does not catch ends the task.
Raised(t, e) ==
    IF Caught(e)
    THEN [t EXCEPT !.pc = "done", !.outcome = ExceptionResult(e)]
    ELSE [t EXCEPT !.pc = "done", !.outcome = [exception |-> e]]

\* self.results after an exception e was raised inside the try block.
RaisedResults(r, t, e) ==
    IF Caught(e) THEN RecordException(r, t.endpoint, e) ELSE r

----------------------------------------------------------------------------
(* One batch: coroutines built in a loop, then awaited with asyncio.gather *)

OtherVars == <<session, run, latencies, stats>>
TwinVars == <<twin, twinTasks, victim>>

Idx == DOMAIN tasks

AllDone(ts) == \A i \in DOMAIN ts : ts[i].pc = "done"

\* tasks = [self.make_request(...) for i in range(count)], with the
\* descriptors taken round-robin as in endpoints[i % len(endpoints)].
BuildTasks(n, k) ==
    [i \in 1..n |-> NewTask(Descriptors[((i + k) % Len(Descriptors)) + 1])]

\* profile_response = await self.make_request("GET", "/auth/profile", ...):
\* one coroutine awaited on its own, before a batch is built.
CallCore ==
    /\ phase.pc = "idle"
    /\ phase.calls < MaxPrior
    /\ tasks' = <<NewTask(Descriptors[1])>>
    /\ phase' = [phase EXCEPT !.pc = "call"]
    /\ UNCHANGED <<results, gathered, pre>>

\* The awaited coroutine returned.
CallReturnCore ==
    /\ phase.pc = "call"
    /\ AllDone(tasks)
    /\ tasks' = <<>>
    /\ phase' = [pc |-> "idle", calls |-> phase.calls + 1]
    /\ UNCHANGED <<results, gathered, pre>>

\* results = await asyncio.gather(*tasks, return_exceptions=True): dispatch.
DispatchCore(n, k) ==
    /\ phase.pc = "idle"
    /\ tasks' = BuildTasks(n, k)
    /\ pre' = results
    /\ phase' = [phase EXCEPT !.pc = "gather"]
    /\ UNCHANGED <<results, gathered>>

\* The coroutine runs from line 38 to its first await; an unsupported
\* method raises ValueError inside the try block before any await.
StartCore(i) ==
    /\ phase.pc \in {"call", "gather"}
    /\ tasks[i].pc = "new"
    /\ IF Supported(tasks[i].method)
       THEN /\ tasks' = [tasks EXCEPT ![i].pc = "sent"]
            /\ UNCHANGED results
       ELSE /\ tasks' = [tasks EXCEPT ![i] = Raised(@, "ValueError")]
            /\ results' = RaisedResults(results, tasks[i], "ValueError")
    /\ UNCHANGED <<gathered, pre, phase>>

\* async with self.session.get/post(...) as response: the headers arrived.
HeadersCore(i, s) ==
    /\ tasks[i].pc = "sent"
    /\ tasks' = [tasks EXCEPT ![i].pc = "body", ![i].status = s]
    /\ UNCHANGED <<results, gathered, pre, phase>>

\* body = await response.text() returned; lines 46-71 run without await.
ReadBodyCore(i, reply) ==
    /\ tasks[i].pc = "body"
    /\ results' = RecordResponse(results, tasks[i].endpoint, tasks[i].status,
                                 reply.body, reply.rt)
    /\ tasks' = [tasks EXCEPT ![i].pc = "done",
                              ![i].outcome = ResponseResult(tasks[i].status,
                                                            reply.body, reply.rt)]
    /\ UNCHANGED <<gathered, pre, phase>>

\* One of the two awaits raised (timeout, connection error).
FailCore(i, e) ==
    /\ tasks[i].pc \in {"sent", "body"}
    /\ results' = RaisedResults(results, tasks[i], e)
    /\ tasks' = [tasks EXCEPT ![i] = Raised(@, e)]
    /\ UNCHANGED <<gathered, pre, phase>>

\* asyncio.gather(..., return_exceptions=True) returns once every task is
\* done: one element per task, in input order, a raised exception as a value.
GatherResults(ts) == [i \in DOMAIN ts |-> ts[i].outcome]

GatherCore ==
    /\ phase.pc = "gather"
    /\ AllDone(tasks)
    /\ gathered' = GatherResults(tasks)
    /\ phase' = [phase EXCEPT !.pc = "returned"]
    /\ UNCHANGED <<results, tasks, pre>>

Call == CallCore /\ UNCHANGED TwinVars /\ UNCHANGED OtherVars
CallReturn == CallReturnCore /\ UNCHANGED TwinVars /\ UNCHANGED OtherVars
Dispatch(n, k) == DispatchCore(n, k) /\ UNCHANGED TwinVars /\ UNCHANGED OtherVars
Start(i) == StartCore(i) /\ UNCHANGED TwinVars /\ UNCHANGED OtherVars
Headers(i, s) == HeadersCore(i, s) /\ UNCHANGED TwinVars /\ UNCHANGED OtherVars
ReadBody(i, reply) == ReadBodyCore(i, reply) /\ UNCHANGED TwinVars /\ UNCHANGED OtherVars
Fail(i, e) == FailCore(i, e) /\ UNCHANGED TwinVars /\ UNCHANGED OtherVars
Gather == GatherCore /\ UNCHANGED TwinVars /\ UNCHANGED OtherVars

Init ==
    /\ session = "open"
    /\ results = NewResults
    /\ tasks = <<>>
    /\ gathered = <<>>
    /\ pre = NewResults
    /\ phase = [pc |-> "idle", calls |-> 0]
    /\ twin = NewResults
    /\ twinTasks = <<>>
    /\ victim = 0
    /\ run = [pc |-> "none"]
    /\ latencies = <<>>
    /\ stats = [pc |-> "none"]

Next ==
    \/ Call
    \/ CallReturn
    \/ \E n \in 1..BatchSize, k \in 0..2 : Dispatch(n, k)
    \/ \E i \in Idx : Start(i)
    \/ \E i \in Idx, s \in Statuses : Headers(i, s)
    \/ \E i \in Idx, reply \in Replies : ReadBody(i, reply)
    \/ \E i \in Idx, e \in TransportErrors : Fail(i, e)
    \/ Gather

Spec == Init /\ [][Next]_vars

----------------------------------------------------------------------------
(* SpecTwin: the batch, and beside it the run in which the request that    *)
(* ends in a transport exception answers instead.  Both runs execute the   *)
(* same code on the same inputs in the same order; they differ in one      *)
(* request, the victim, which raises in the first run and is answered with *)
(* a status below 400 in the twin.                                         *)

SuccessStatuses == {s \in Statuses : IsSuccess(s)}

TwinDispatch(n, k) ==
    /\ DispatchCore(n, k)
    /\ twinTasks' = tasks'
    /\ twin' = results
    /\ victim' = 0
    /\ UNCHANGED OtherVars

TwinStart(i) ==
    /\ StartCore(i)
    /\ IF Supported(twinTasks[i].method)
       THEN /\ twinTasks' = [twinTasks EXCEPT ![i].pc = "sent"]
            /\ UNCHANGED twin
       ELSE /\ twinTasks' = [twinTasks EXCEPT ![i] = Raised(@, "ValueError")]
            /\ twin' = RaisedResults(twin, twinTasks[i], "ValueError")
    /\ UNCHANGED <<victim, OtherVars>>

TwinHeaders(i, s) ==
    /\ HeadersCore(i, s)
    /\ twinTasks' = [twinTasks EXCEPT ![i].pc = "body", ![i].status = s]
    /\ UNCHANGED <<twin, victim, OtherVars>>

TwinReadBody(i, reply) ==
    /\ ReadBodyCore(i, reply)
    /\ twin' = RecordResponse(twin, twinTasks[i].endpoint, twinTasks[i].status,
                              reply.body, reply.rt)
    /\ twinTasks' = [twinTasks EXCEPT ![i].pc = "done",
                                      ![i].outcome = ResponseResult(twinTasks[i].status,
                                                                    reply.body, reply.rt)]
    /\ UNCHANGED <<victim, OtherVars>>

\* A transport exception that both runs see.
TwinFail(i, e) ==
    /\ FailCore(i, e)
    /\ twin' = RaisedResults(twin, twinTasks[i], e)
    /\ twinTasks' = [twinTasks EXCEPT ![i] = Raised(@, e)]
    /\ UNCHANGED <<victim, OtherVars>>

\* The transport exception of the victim: the twin run reads a response.
TwinFailVictim(i, e, s, reply) ==
    /\ victim = 0
    /\ FailCore(i, e)
    /\ victim' = i
    /\ twin' = RecordResponse(twin, twinTasks[i].endpoint, s, reply.body, reply.rt)
    /\ twinTasks' = [twinTasks EXCEPT ![i].pc = "done",
                                      ![i].status = s,
                                      ![i].outcome = ResponseResult(s, reply.body, reply.rt)]
    /\ UNCHANGED OtherVars

TwinGather ==
    /\ GatherCore
    /\ UNCHANGED <<TwinVars, OtherVars>>

TwinNext ==
    \/ \E n \in 1..BatchSize, k \in 0..2 : TwinDispatch(n, k)
    \/ \E i \in Idx : TwinStart(i)
    \/ \E i \in Idx, s \in Statuses : TwinHeaders(i, s)
    \/ \E i \in Idx, reply \in Replies : TwinReadBody(i, reply)
    \/ \E i \in Idx, e \in TransportErrors : TwinFail(i, e)
    \/ \E i \in Idx, e \in TransportErrors, s \in SuccessStatuses, reply \in Replies :
           TwinFailVictim(i, e, s, reply)
    \/ TwinGather

SpecTwin == Init /\ [][TwinNext]_vars

----------------------------------------------------------------------------
(* SpecRun: run_comprehensive_stress_test and the scenarios it awaits *)

\* Counts the script passes: test_authenticated_operations(token, 50),
\* test_customer_operations(token, 15), range(10) list requests,
\* test_ai_performance(token, 10).
AuthOps == 50
CustomerOps == 15
ListOps == 10
ChatOps == 10

\* The run is checked at a reduced scale that keeps the script's
\* proportions: AuthCount requests stand for the 50 authenticated ones.
Scaled(n) == (n * AuthCount + AuthOps - 1) \div AuthOps

\* endpoints of test_authenticated_operations, taken as endpoints[i % 4].
AuthEndpoints == <<"/auth/profile", "/customers", "/pipelines", "/ai/capabilities">>

\* What the server may answer, by request.  A 2xx answer carries the body
\* the script expects of the endpoint, except at /auth/login and
\* /auth/profile where it may lack the field the script reads.
Answer(status, kind, rt) == [status |-> status, body |-> Body(kind, 40), rt |-> rt]
ErrorPage == [status |-> 500, body |-> Body("text", 250), rt |-> 900]

Answers(method, endpoint) ==
    CASE endpoint = "/auth/register" ->
            {Answer(201, "json", 5), Answer(429, "json", 5), ErrorPage}
      [] endpoint = "/auth/login" ->
            {Answer(200, "token", 5), Answer(200, "json", 5), Answer(401, "json", 5)}
      [] endpoint = "/auth/profile" ->
            {Answer(200, "profile", 5), Answer(200, "json", 5), Answer(401, "json", 5),
             ErrorPage}
      [] endpoint = "/pipelines" ->
            {Answer(200, "pipelines", 5), Answer(200, "nopipelines", 5), ErrorPage}
      [] endpoint = "/pipelines/1/stages" -> {Answer(200, "stages", 5), ErrorPage}
      [] endpoint = "/customers" /\ method = "POST" -> {Answer(201, "json", 5), ErrorPage}
      [] endpoint = "/ai/assistant/configure" -> {Answer(201, "json", 5), ErrorPage}
      [] OTHER -> {Answer(200, "json", 5), ErrorPage}

\* The transport exception the run is checked with.
RunErrors == {"ClientConnectorError"}

Outcomes(method, endpoint) ==
    Answers(method, endpoint) \cup {[exception |-> e] : e \in RunErrors}

\* json.loads(body) raises on text that is not JSON.
IsJson(body) == body.kind # "text"

\* The keys of the object json.loads(body) returns.
Keys(body) ==
    CASE body.kind = "token" -> {"accessToken"}
      [] body.kind = "profile" -> {"organizationId"}
      [] body.kind \in {"pipelines", "nopipelines", "stages"} -> {"data"}
      [] OTHER -> {}

\* await self.make_request(method, endpoint, ...) awaited on its own: the
\* coroutine runs to its end before the caller goes on.  o is what the
\* network does: an answer, or an exception raised by one of the awaits.
MakeRequest(r, method, endpoint, o) ==
    LET t == NewTask([method |-> method, endpoint |-> endpoint])
    IN  IF ~Supported(method)
        THEN [results |-> RaisedResults(r, t, "ValueError"),
              result |-> Raised(t, "ValueError").outcome]
        ELSE IF "exception" \in DOMAIN o
        THEN [results |-> RaisedResults(r, t, o.exception),
              result |-> Raised(t, o.exception).outcome]
        ELSE [results |-> RecordResponse(r, endpoint, o.status, o.body, o.rt),
              result |-> ResponseResult(o.status, o.body, o.rt)]

NoResponse == [status |-> -1, body |-> Body("none", 0), response_time |-> 0]

NewRun ==
    [pc |-> "setup", register_response |-> NoResponse, login_response |-> NoResponse,
     token |-> "none", profile_response |-> NoResponse, printed |-> {}]

RunFrame == <<twin, twinTasks, victim, latencies, stats>>
BatchIdle == <<tasks, gathered, pre, phase>>

Goto(pc) == run' = [run EXCEPT !.pc = pc]
Say(msg, pc) == run' = [run EXCEPT !.pc = pc, !.printed = @ \cup {msg}]

\* except Exception as e: print(f"Stress test failed: {e}"), then finally.
Abort == Say("failed", "cleanup")

\* Line 278: await self.setup_session()
RunSetup ==
    /\ run.pc = "setup"
    /\ session' = "open"
    /\ Goto("register")
    /\ UNCHANGED <<results, BatchIdle, RunFrame>>

\* Mutation: the rate-limit test compares with the wrong status.
RateLimited428(response) == response.status = 428

\* if register_response['status'] == 429
RateLimited(response) == response.status = 429

\* if login_response['status'] != 200
LoginFailed(response) == response.status # 200

\* Lines 285-295
RunRegister(o) ==
    /\ run.pc = "register"
    /\ LET m == MakeRequest(results, "POST", "/auth/register", o)
       IN  /\ results' = m.results
           /\ IF ~IsRecord(m.result) THEN Abort
              ELSE IF RateLimited(m.result)
              THEN run' = [run EXCEPT !.pc = "cleanup",
                                      !.register_response = m.result,
                                      !.printed = @ \cup {"rate_limited"}]
              ELSE run' = [run EXCEPT !.pc = "activate", !.register_response = m.result]
    /\ UNCHANGED <<session, BatchIdle, RunFrame>>

\* Lines 298-300; the response is not looked at.
RunActivate(o) ==
    /\ run.pc = "activate"
    /\ LET m == MakeRequest(results, "POST", "/test/activate-user", o)
       IN  /\ results' = m.results
           /\ IF ~IsRecord(m.result) THEN Abort ELSE Goto("login")
    /\ UNCHANGED <<session, BatchIdle, RunFrame>>

\* Lines 303-312
RunLogin(o) ==
    /\ run.pc = "login"
    /\ LET m == MakeRequest(results, "POST", "/auth/login", o)
       IN  /\ results' = m.results
           /\ IF ~IsRecord(m.result) THEN Abort
              ELSE IF LoginFailed(m.result)
              THEN run' = [run EXCEPT !.pc = "cleanup",
                                      !.login_response = m.result,
                                      !.printed = @ \cup {"login_failed"}]
              ELSE IF IsJson(m.result.body) /\ "accessToken" \in Keys(m.result.body)
              THEN run' = [run EXCEPT !.pc = "finish",
                                      !.login_response = m.result,
                                      !.token = "token"]
              ELSE run' = [run EXCEPT !.pc = "cleanup",
                                      !.login_response = m.result,
                                      !.printed = @ \cup {"failed"}]
    /\ UNCHANGED <<session, BatchIdle, RunFrame>>

\* Lines 315-322; the response is not looked at.
RunFinish(o) ==
    /\ run.pc = "finish"
    /\ LET m == MakeRequest(results, "POST", "/auth/finish", o)
       IN  /\ results' = m.results
           /\ IF ~IsRecord(m.result) THEN Abort ELSE Goto("auth")
    /\ UNCHANGED <<session, BatchIdle, RunFrame>>

\* The coroutines of the batch a scenario builds.
BatchOf(pc) ==
    CASE pc = "auth" ->
            [i \in 1..AuthCount |->
                NewTask([method |-> "GET",
                         endpoint |-> AuthEndpoints[((i - 1) % Len(AuthEndpoints)) + 1]])]
      [] pc = "create" ->
            [i \in 1..Scaled(CustomerOps) |->
                NewTask([method |-> "POST", endpoint |-> "/customers"])]
      [] pc = "list" ->
            [i \in 1..Scaled(ListOps) |->
                NewTask([method |-> "GET", endpoint |-> "/customers?page=1&limit=20"])]
      [] pc = "chat" ->
            [i \in 1..Scaled(ChatOps) |->
                NewTask([method |-> "POST", endpoint |-> "/ai/chat"])]

\* What a scenario prints when it starts.
Banner(pc) ==
    CASE pc = "auth" -> {"auth"}
      [] OTHER -> {}

\* Where the script goes on when a batch has been gathered.
AfterBatch(pc) ==
    CASE pc = "auth" -> "profile"
      [] pc = "create" -> "list"
      [] pc = "list" -> "pipelines"
      [] pc = "chat" -> "report"

\* Lines 112-130, 162-176, 183-189, 246-265: build the tasks and await
\* asyncio.gather(*tasks, return_exceptions=True).
RunDispatch ==
    /\ run.pc \in {"auth", "create", "list", "chat"}
    /\ phase.pc = "idle"
    /\ tasks' = BatchOf(run.pc)
    /\ pre' = results
    /\ phase' = [phase EXCEPT !.pc = "gather"]
    /\ run' = [run EXCEPT !.printed = @ \cup Banner(run.pc)]
    /\ UNCHANGED <<session, results, gathered, RunFrame>>

RunStart(i) == StartCore(i) /\ UNCHANGED <<session, run, RunFrame>>

RunHeaders(i, a) ==
    /\ a \in Answers(tasks[i].method, tasks[i].endpoint)
    /\ HeadersCore(i, a.status)
    /\ UNCHANGED <<session, run, RunFrame>>

RunReadBody(i, a) ==
    /\ a \in Answers(tasks[i].method, tasks[i].endpoint)
    /\ a.status = tasks[i].status
    /\ ReadBodyCore(i, [body |-> a.body, rt |-> a.rt])
    /\ UNCHANGED <<session, run, RunFrame>>

RunFail(i, e) == FailCore(i, e) /\ UNCHANGED <<session, run, RunFrame>>

RunGather == GatherCore /\ UNCHANGED <<session, run, RunFrame>>

\* Lines 131-145, 177-180, 190-195, 266-271: the results are counted with
\* isinstance(r, dict) and r.get(...), which raise on no element.
RunGathered ==
    /\ phase.pc = "returned"
    /\ run.pc \in {"auth", "create", "list", "chat"}
    /\ phase' = [phase EXCEPT !.pc = "idle"]
    /\ tasks' = <<>>
    /\ Goto(AfterBatch(run.pc))
    /\ UNCHANGED <<session, results, gathered, pre, RunFrame>>

\* Lines 149-159: test_customer_operations up to the organization id.
RunProfile(o) ==
    /\ run.pc = "profile"
    /\ LET m == MakeRequest(results, "GET", "/auth/profile", o)
           said == run.printed \cup {"customers"}
       IN  /\ results' = m.results
           /\ IF ~IsRecord(m.result)
              THEN run' = [run EXCEPT !.pc = "cleanup", !.printed = said \cup {"failed"}]
              ELSE IF ~IsJson(m.result.body)
              THEN run' = [run EXCEPT !.pc = "cleanup",
                                      !.profile_response = m.result,
                                      !.printed = said \cup {"failed"}]
              ELSE IF "organizationId" \notin Keys(m.result.body)
              THEN run' = [run EXCEPT !.pc = "pipelines",
                                      !.profile_response = m.result,
                                      !.printed = said \cup {"no_org"}]
              ELSE run' = [run EXCEPT !.pc = "create",
                                      !.profile_response = m.result,
                                      !.printed = said]
    /\ UNCHANGED <<session, BatchIdle, RunFrame>>

\* Lines 199-209: test_pipeline_operations up to the pipeline id.
RunPipelines(o) ==
    /\ run.pc = "pipelines"
    /\ LET m == MakeRequest(results, "GET", "/pipelines", o)
           said == run.printed \cup {"pipelines"}
       IN  /\ results' = m.results
           /\ IF ~IsRecord(m.result)
              THEN run' = [run EXCEPT !.pc = "cleanup", !.printed = said \cup {"failed"}]
              ELSE IF m.result.status # 200
              THEN run' = [run EXCEPT !.pc = "configure", !.printed = said]
              ELSE IF ~IsJson(m.result.body) \/ "data" \notin Keys(m.result.body)
              THEN run' = [run EXCEPT !.pc = "cleanup", !.printed = said \cup {"failed"}]
              ELSE IF m.result.body.kind = "pipelines"
              THEN run' = [run EXCEPT !.pc = "stages", !.printed = said]
              ELSE run' = [run EXCEPT !.pc = "configure", !.printed = said]
    /\ UNCHANGED <<session, BatchIdle, RunFrame>>

\* Lines 212-225
RunStages(o) ==
    /\ run.pc = "stages"
    /\ LET m == MakeRequest(results, "GET", "/pipelines/1/stages", o)
       IN  /\ results' = m.results
           /\ IF ~IsRecord(m.result) THEN Abort
              ELSE IF m.result.status # 200 THEN Goto("configure")
              ELSE IF m.result.body.kind # "stages" THEN Abort
              ELSE Say("stages", "configure")
    /\ UNCHANGED <<session, BatchIdle, RunFrame>>

\* Lines 229-243: test_ai_performance up to the configuration check.
RunConfigure(o) ==
    /\ run.pc = "configure"
    /\ LET m == MakeRequest(results, "POST", "/ai/assistant/configure", o)
           said == run.printed \cup {"ai"}
       IN  /\ results' = m.results
           /\ IF ~IsRecord(m.result)
              THEN run' = [run EXCEPT !.pc = "cleanup", !.printed = said \cup {"failed"}]
              ELSE IF m.result.status # 201
              THEN run' = [run EXCEPT !.pc = "report",
                                      !.printed = said \cup {"ai_config_failed"}]
              ELSE run' = [run EXCEPT !.pc = "chat", !.printed = said]
    /\ UNCHANGED <<session, BatchIdle, RunFrame>>

RECURSIVE Sum(_)
Sum(seq) == IF seq = <<>> THEN 0 ELSE seq[1] + Sum(Tail(seq))

\* success_rate > 95, with success_rate = success_count / total * 100
RateAbove95(r) == r.success_count * 100 > 95 * Total(r)

\* statistics.mean(response_times) < 500
MeanBelow500(r) == Sum(r.response_times) < 500 * Len(r.response_times)

\* Lines 333-353: the report.  The division raises ZeroDivisionError on a
\* total of 0 and statistics.mean raises StatisticsError on an empty list.
RunReport ==
    /\ run.pc = "report"
    /\ LET said == run.printed \cup {"results"}
       IN  IF Total(results) = 0
           THEN run' = [run EXCEPT !.pc = "cleanup", !.printed = said \cup {"failed"}]
           ELSE IF ~RateAbove95(results)
           THEN run' = [run EXCEPT !.pc = "cleanup", !.printed = said \cup {"concerns"}]
           ELSE IF results.response_times = <<>>
           THEN run' = [run EXCEPT !.pc = "cleanup", !.printed = said \cup {"failed"}]
           ELSE IF MeanBelow500(results)
           THEN run' = [run EXCEPT !.pc = "cleanup", !.printed = said \cup {"passed"}]
           ELSE run' = [run EXCEPT !.pc = "cleanup", !.printed = said \cup {"concerns"}]
    /\ UNCHANGED <<session, results, BatchIdle, RunFrame>>

\* finally: await self.cleanup_session()
RunCleanup ==
    /\ run.pc = "cleanup"
    /\ session' = IF session = "open" THEN "closed" ELSE session
    /\ Goto("finished")
    /\ UNCHANGED <<results, BatchIdle, RunFrame>>

RunInit ==
    /\ session = "none"
    /\ results = NewResults
    /\ tasks = <<>>
    /\ gathered = <<>>
    /\ pre = NewResults
    /\ phase = [pc |-> "idle", calls |-> 0]
    /\ twin = NewResults
    /\ twinTasks = <<>>
    /\ victim = 0
    /\ run = NewRun
    /\ latencies = <<>>
    /\ stats = [pc |-> "none"]

RunNext ==
    \/ RunSetup
    \/ \E o \in Outcomes("POST", "/auth/register") : RunRegister(o)
    \/ \E o \in Outcomes("POST", "/test/activate-user") : RunActivate(o)
    \/ \E o \in Outcomes("POST", "/auth/login") : RunLogin(o)
    \/ \E o \in Outcomes("POST", "/auth/finish") : RunFinish(o)
    \/ RunDispatch
    \/ \E i \in Idx : RunStart(i)
    \/ \E i \in Idx, a \in UNION {Answers(tasks[j].method, tasks[j].endpoint) : j \in Idx} :
           RunHeaders(i, a)
    \/ \E i \in Idx, a \in UNION {Answers(tasks[j].method, tasks[j].endpoint) : j \in Idx} :
           RunReadBody(i, a)
    \/ \E i \in Idx, e \in RunErrors : RunFail(i, e)
    \/ RunGather
    \/ RunGathered
    \/ \E o \in Outcomes("GET", "/auth/profile") : RunProfile(o)
    \/ \E o \in Outcomes("GET", "/pipelines") : RunPipelines(o)
    \/ \E o \in Outcomes("GET", "/pipelines/1/stages") : RunStages(o)
    \/ \E o \in Outcomes("POST", "/ai/assistant/configure") : RunConfigure(o)
    \/ RunReport
    \/ RunCleanup

SpecRun == RunInit /\ [][RunNext]_vars

----------------------------------------------------------------------------
(* SpecStats: sorted(times)[int(len(times) * 0.95)], the 95th percentile   *)
(* printed by test_authenticated_operations and by the final report        *)

\* The latency lists the expression is checked on: every length up to
\* MaxLatencies, in four orders (ascending, descending, scrambled, and
\* scrambled with repeated values).
LatencyList(n, shape) ==
    [i \in 1..n |->
        CASE shape = "ascending" -> 10 * i
          [] shape = "descending" -> 10 * (n + 1 - i)
          [] shape = "scrambled" -> 10 * (((i * 7) % 23) + 1)
          [] shape = "repeated" -> 10 * (((i * 3) % 5) + 1)]

Shapes == {"ascending", "descending", "scrambled", "repeated"}

\* sorted(): a new list in ascending order; the argument is left as it is.
RECURSIVE Insert(_, _)
Insert(x, seq) ==
    IF seq = <<>> THEN <<x>>
    ELSE IF x <= Head(seq) THEN <<x>> \o seq
    ELSE <<Head(seq)>> \o Insert(x, Tail(seq))

RECURSIVE Sorted(_)
Sorted(seq) == IF seq = <<>> THEN <<>> ELSE Insert(Head(seq), Sorted(Tail(seq)))

\* int(len(times) * 0.95), a 0-based index.  The double product truncates
\* to the same integer as the exact 95 * n / 100 for every n below 200000.
P95Index(n) == (n * 95) \div 100

\* if valid_times: / if self.results['response_times']: the percentile of
\* a non-empty list.  Python indexes from 0; an index of len or more raises
\* IndexError.
Percentile ==
    /\ stats.pc = "ready"
    /\ latencies # <<>>
    /\ LET copy == Sorted(latencies)
           index == P95Index(Len(latencies))
       IN  stats' = IF index < Len(copy)
                    THEN [pc |-> "done", index |-> index, value |-> copy[index + 1]]
                    ELSE [pc |-> "IndexError", index |-> index, value |-> 0]
    /\ UNCHANGED <<latencies, session, results, tasks, gathered, pre, phase, twin,
                   twinTasks, victim, run>>

\* An empty list: nothing is computed.
PercentileSkipped ==
    /\ stats.pc = "ready"
    /\ latencies = <<>>
    /\ stats' = [pc |-> "skipped", index |-> 0, value |-> 0]
    /\ UNCHANGED <<latencies, session, results, tasks, gathered, pre, phase, twin,
                   twinTasks, victim, run>>

StatsInit ==
    /\ session = "none"
    /\ results = NewResults
    /\ tasks = <<>>
    /\ gathered = <<>>
    /\ pre = NewResults
    /\ phase = [pc |-> "idle", calls |-> 0]
    /\ twin = NewResults
    /\ twinTasks = <<>>
    /\ victim = 0
    /\ run = [pc |-> "none"]
    /\ latencies \in {LatencyList(n, shape) : n \in 0..MaxLatencies, shape \in Shapes}
    /\ stats = [pc |-> "ready", index |-> 0, value |-> 0]

StatsNext == Percentile \/ PercentileSkipped

SpecStats == StatsInit /\ [][StatsNext]_vars

----------------------------------------------------------------------------
(* Properties of make_request and of one batch (Spec) *)

DoneCount(ts) == Cardinality({i \in DOMAIN ts : ts[i].pc = "done"})

\* This step is the one in which coroutine i returns (or ends).
Completes(i) ==
    /\ i \in DOMAIN tasks
    /\ i \in DOMAIN tasks'
    /\ tasks[i].pc \in {"new", "sent", "body"}
    /\ tasks'[i].pc = "done"

\* The errors entries that carry an HTTP status / an exception text.
StatusEntries(r) == {k \in DOMAIN r.errors : "status" \in DOMAIN r.errors[k]}
ErrorEntries(r) == {k \in DOMAIN r.errors : "error" \in DOMAIN r.errors[k]}

\* C1: a batch of N make_request calls awaited with asyncio.gather returns
\* exactly N results, and success_count + error_count after the batch is the
\* pre-batch total plus N; while the batch runs the total is the pre-batch
\* total plus the number of requests that have completed, under every
\* interleaving and every mix of outcomes.
C1_BatchCounts ==
    /\ phase.pc \in {"gather", "returned"} =>
           Total(results) = Total(pre) + DoneCount(tasks)
    /\ phase.pc = "returned" =>
           /\ Len(gathered) = Len(tasks)
           /\ Total(results) = Total(pre) + Len(tasks)

C1_Witness ==
    /\ phase.pc = "returned"
    /\ Len(gathered) = 2
    /\ Total(pre) = 1
    /\ gathered[1].status = 0
    /\ gathered[2].status = 400
    /\ Total(results) = 3

\* The step in which request i ends as the claim C2 lists it: an exception
\* (status 0 in the result) or a status outside 200..299.
C2_EndsNonTwoXX(i) ==
    /\ Completes(i)
    /\ IsRecord(tasks'[i].outcome)
    /\ tasks'[i].outcome.status \notin 200..299

C2_EndsFailed(i) ==
    /\ Completes(i)
    /\ IsRecord(tasks'[i].outcome)
    /\ \/ tasks'[i].outcome.status = 0
       \/ tasks'[i].outcome.status >= 400

C2_RecordedAsFailure ==
    /\ results'.error_count = results.error_count + 1
    /\ Len(results'.errors) = Len(results.errors) + 1
    /\ results'.success_count = results.success_count

\* C2 as stated: a request that times out, hits a connection error or
\* completes with any non-2xx status raises error_count by one, appends one
\* entry to errors and leaves success_count unchanged.
C2_NonTwoXXIsFailure ==
    [][\A i \in Idx : C2_EndsNonTwoXX(i) => C2_RecordedAsFailure]_vars

\* C2 amended: a request that times out, hits a connection error or
\* completes with a status >= 400 raises error_count by one, appends one
\* entry to errors and leaves success_count unchanged.
C2_FailureRecorded ==
    [][\A i \in Idx : C2_EndsFailed(i) => C2_RecordedAsFailure]_vars

C2_Witness ==
    /\ Len(tasks) = 2
    /\ tasks[1].pc = "done" /\ tasks[1].outcome = ExceptionResult("TimeoutError")
    /\ tasks[2].pc = "done" /\ tasks[2].outcome.status = 500
    /\ results.error_count = 2
    /\ results.success_count = 0

\* The step in which request i ends although no response was read: its
\* method is unsupported, or one of its awaits raised.
C4_EndsWithoutResponse(i) ==
    /\ Completes(i)
    /\ \/ tasks[i].pc = "new"
       \/ tasks[i].pc = "sent"
       \/ tasks[i].pc = "body" /\ results'.response_times = results.response_times

C4_SyntheticFailure(i) ==
    /\ IsRecord(tasks'[i].outcome)
    /\ tasks'[i].outcome.status = 0
    /\ tasks'[i].outcome.response_time = 0
    /\ tasks'[i].outcome.body.kind = "text"
    /\ results'.error_count = results.error_count + 1
    /\ results'.success_count = results.success_count
    /\ results'.response_times = results.response_times
    /\ Len(results'.errors) = Len(results.errors) + 1
    /\ results'.errors[Len(results'.errors)] =
           [endpoint |-> tasks[i].endpoint, error |-> tasks'[i].outcome.body]

C4_OnlyRecords ==
    /\ \A i \in Idx : tasks[i].pc = "done" => IsRecord(tasks[i].outcome)
    /\ \A i \in DOMAIN gathered : IsRecord(gathered[i])

\* C4: make_request never propagates an exception: on a transport failure
\* and on an unsupported method it returns status 0, the error text as body
\* and response_time 0, raises error_count by one, appends one error entry
\* and appends nothing to response_times; every element a batch's gather
\* returns is a result record, never an exception object.
C4_NeverPropagates ==
    /\ []C4_OnlyRecords
    /\ [][\A i \in Idx : C4_EndsWithoutResponse(i) => C4_SyntheticFailure(i)]_vars

C4_Witness ==
    /\ phase.pc = "returned"
    /\ Len(gathered) = 2
    /\ tasks[1].method = "PUT"
    /\ gathered[1] = ExceptionResult("ValueError")
    /\ gathered[2] = ExceptionResult("ClientConnectorError")

\* The step in which request i ends with a response read.
C7_Answered(i) ==
    /\ Completes(i)
    /\ IsRecord(tasks'[i].outcome)
    /\ tasks'[i].outcome.status # 0

C7_StepClassified(i) ==
    IF tasks'[i].outcome.status < 400
    THEN /\ results'.success_count = results.success_count + 1
         /\ results'.error_count = results.error_count
         /\ results'.errors = results.errors
    ELSE /\ results'.error_count = results.error_count + 1
         /\ results'.success_count = results.success_count

C7_AllAnswer500 ==
    (/\ phase.pc = "returned"
     /\ \A i \in DOMAIN gathered : IsRecord(gathered[i]) /\ gathered[i].status = 500)
    => /\ results.error_count = pre.error_count + Len(gathered)
       /\ results.success_count = pre.success_count

\* C7: a completed request with status < 400 raises success_count by one and
\* leaves error_count and errors unchanged; one with status >= 400 raises
\* error_count by one and leaves success_count unchanged; a batch of N
\* requests that all answer 500 raises error_count by exactly N and leaves
\* success_count unchanged.
C7_Classification ==
    /\ []C7_AllAnswer500
    /\ [][\A i \in Idx : C7_Answered(i) => C7_StepClassified(i)]_vars

C7_Witness ==
    /\ phase.pc = "returned"
    /\ Len(gathered) = 2
    /\ \A i \in DOMAIN gathered : gathered[i].status = 500
    /\ pre.success_count = 1
    /\ results.success_count = 1
    /\ results.error_count = 2

\* C9: in every reachable state len(errors) = error_count and
\* len(response_times) = success_count + the number of errors entries that
\* carry an HTTP status; so len(response_times) <= success_count +
\* error_count, with equality exactly when no request ended in an exception.
C9_Bookkeeping ==
    /\ Len(results.errors) = results.error_count
    /\ Len(results.response_times) =
           results.success_count + Cardinality(StatusEntries(results))
    /\ Len(results.response_times) <= Total(results)
    /\ Len(results.response_times) = Total(results) <=> ErrorEntries(results) = {}

C9_Witness ==
    /\ results.success_count = 1
    /\ Cardinality(StatusEntries(results)) = 1
    /\ Cardinality(ErrorEntries(results)) = 1
    /\ Len(results.response_times) = 2

----------------------------------------------------------------------------
(* Properties of sibling requests (SpecTwin) *)

\* The sequence without its k-th element.
RemoveAt(seq, k) == [j \in 1..(Len(seq) - 1) |-> IF j < k THEN seq[j] ELSE seq[j + 1]]

\* The twin run's records are this run's records, the victim's one apart.
C6_SameButVictim ==
    /\ results.success_count + 1 = twin.success_count
    /\ results.error_count = twin.error_count + 1
    /\ \E k \in DOMAIN results.errors :
           /\ results.errors[k] = [endpoint |-> tasks[victim].endpoint,
                                   error |-> tasks[victim].outcome.body]
           /\ RemoveAt(results.errors, k) = twin.errors
    /\ \E k \in DOMAIN twin.response_times :
           /\ twin.response_times[k] = twinTasks[victim].outcome.response_time
           /\ RemoveAt(twin.response_times, k) = results.response_times

\* C6: a transport exception in one request of a batch does not affect what
\* is recorded for its siblings: every sibling's coroutine state and
\* returned result record, and what the siblings together added to
\* success_count, error_count, response_times and errors, are the same as in
\* the run where the failing request had succeeded, under every
\* interleaving.
C6_SiblingsUnaffected ==
    /\ DOMAIN tasks = DOMAIN twinTasks
    /\ \A i \in Idx : i # victim => tasks[i] = twinTasks[i]
    /\ phase.pc = "returned" =>
           \A i \in Idx : i # victim => gathered[i] = GatherResults(twinTasks)[i]
    /\ IF victim = 0 THEN results = twin ELSE C6_SameButVictim

C6_Witness ==
    /\ phase.pc = "returned"
    /\ Len(gathered) = 2
    /\ victim = 1
    /\ gathered[1].status = 0
    /\ gathered[2].status = 500
    /\ twinTasks[1].outcome.status = 200
    /\ results.errors[1].endpoint = tasks[2].endpoint

----------------------------------------------------------------------------
(* Properties of run_comprehensive_stress_test (SpecRun) *)

\* The positions of the script from Phase 2 on.
Phase2 ==
    {"auth", "profile", "create", "list", "pipelines", "stages", "configure", "chat",
     "report"}

\* What the four scenarios print when they start.
Banners == {"auth", "customers", "pipelines", "ai"}

\* The login request returned status 200 and its body yielded a token.
LoginYieldedToken ==
    /\ run.login_response.status = 200
    /\ IsJson(run.login_response.body)
    /\ "accessToken" \in Keys(run.login_response.body)
    /\ run.token # "none"

C8_EndedEarly ==
    /\ "results" \notin run.printed
    /\ run.printed \cap Banners = {}
    /\ session = "closed"

\* C8: no Phase 2 request is issued unless the login request returned
\* status 200 and its body yielded a token; if registration returns 429, or
\* login returns another status than 200, or the login body has no token,
\* the run ends without printing the results report, and the session is
\* closed all the same.
C8_Sequencing ==
    /\ (run.pc \in Phase2 \/ tasks # <<>> \/ run.printed \cap Banners # {})
           => LoginYieldedToken
    /\ ~LoginYieldedToken => Total(results) <= 3
    /\ (run.pc = "finished" /\ ~LoginYieldedToken) => C8_EndedEarly
    /\ (run.pc = "finished" /\ run.register_response.status = 429)
           => C8_EndedEarly /\ Total(results) = 1

C8_Witness ==
    /\ run.pc = "finished"
    /\ run.login_response.status = 200
    /\ run.token = "none"
    /\ "failed" \in run.printed
    /\ session = "closed"
    /\ Total(results) = 3

\* C3: once login has returned status 200 with a token, every later
\* scenario is started and the results report is printed, whatever the
\* outcome (status >= 400, or status 0 with an error text as body) of the
\* requests issued inside the scenarios.
C3_RunNotAborted ==
    (run.pc = "finished" /\ LoginYieldedToken)
    => (Banners \cup {"results"}) \subseteq run.printed

\* C10: whenever the success rate is computed success_count + error_count
\* is at least 1, and a success rate above 95 comes with a recorded
\* latency, so the mean in the pass/fail test is never taken of an empty
\* list; a report that was started ends with its verdict.
C10_ReportSafe ==
    /\ run.pc = "report" =>
           /\ Total(results) >= 1
           /\ RateAbove95(results) => results.response_times # <<>>
    /\ (run.pc \in {"cleanup", "finished"} /\ "results" \in run.printed) =>
           /\ "failed" \notin run.printed
           /\ run.printed \cap {"passed", "concerns"} # {}

C10_Witness ==
    /\ run.pc = "finished"
    /\ "passed" \in run.printed
    /\ results.error_count = 0
    /\ Len(results.response_times) = Total(results)

----------------------------------------------------------------------------
(* Properties of the 95th percentile (SpecStats) *)

\* ceil(0.95 * n), the 1-based rank of the nearest-rank 95th percentile.
NearestRank(n) == (95 * n + 99) \div 100

\* C5: for every non-empty list of latencies the reported 95th percentile
\* is the element of rank ceil(0.95 * n) (1-based) of the sorted list, the
\* index used is within the sorted copy, and the recorded latencies are
\* left as they were.
C5_NearestRank ==
    stats.pc # "ready" /\ latencies # <<>> =>
        /\ stats.pc = "done"
        /\ stats.index \in 0..(Len(latencies) - 1)
        /\ stats.value = Sorted(latencies)[NearestRank(Len(latencies))]

\* What the code computes instead: the element of 1-based rank
\* floor(0.95 * n) + 1, which is the nearest rank unless 0.95 * n is whole.
C5_FloorRank ==
    stats.pc # "ready" /\ latencies # <<>> =>
        /\ stats.pc = "done"
        /\ stats.index \in 0..(Len(latencies) - 1)
        /\ stats.value = Sorted(latencies)[((95 * Len(latencies)) \div 100) + 1]
        /\ (95 * Len(latencies)) % 100 # 0 =>
               stats.value = Sorted(latencies)[NearestRank(Len(latencies))]

====
